---- MODULE Spec2Model ----
(***************************************************************************)
(* Model of examples/src/mint.ts: one module holding two async IIFEs.      *)
(*   - the mint flow  (lines 7-30): fromMnemonic -> getAccounts ->          *)
(*     connectWithSigner -> execute -> console.log(transactionHash)        *)
(*   - the query flow (lines 34-46): connect -> queryContractSmart ->       *)
(*     console.log(result)                                                 *)
(* Both IIFEs are started by the evaluation of the same module, so both    *)
(* run in one process; each `await` is a suspension point at which the     *)
(* other flow may continue.  Neither IIFE has a catch handler: a rejected  *)
(* await rejects the IIFE's promise, which nothing handles, and the        *)
(* runtime ends the process with status 1.                                 *)
(*                                                                         *)
(* The chain SDK and the remote endpoint are the environment.  Their       *)
(* outcomes are chosen in Init (what the configuration holds, whether the  *)
(* endpoint is reachable, whether the contract accepts the mint) and by    *)
(* the resolving actions (which transaction hash comes back).              *)
(***************************************************************************)
EXTENDS Integers, Sequences, FiniteSets, TLC

\* ------------------------------------------------------------------ bounds
MaxTokens == 2          \* num_tokens of the contract before the run: 0..MaxTokens

\* ------------------------------------------------------- environment values
Undefined == "<undefined>"      \* process.env.X of a variable that is not set

ValidMnemonics == {"abandon ability able about", "zoo zone zero youth"}
MalformedMnemonic == "not-a-mnemonic"
PrivateValues == ValidMnemonics \cup {MalformedMnemonic, Undefined}

RpcUrl == "https://rpc.sei.example"
RpcValues == {RpcUrl, Undefined}

DeployedContract == "sei1contract"
UnknownContract == "sei1nosuchcontract"
ContractValues == {DeployedContract, UnknownContract, Undefined}

TxHashes == {"A1B2C3", "D4E5F6"}    \* hashes the endpoint may answer with

EmptyObject == <<>>                 \* the object literal {}

VARIABLES
    env,            \* process.env: PRIVATE, RPC, CONTRACT_ADDR
    reachable,      \* the RPC endpoint answers
    accepts,        \* the contract accepts the mint message
    contractState,  \* state of the deployed contract on chain
    mintPc,         \* position of the mint IIFE
    wallet,         \* mint: const wallet
    address,        \* mint: const [{ address }]
    mintClient,     \* mint: const client
    mintResult,     \* mint: let result
    queryPc,        \* position of the query IIFE
    queryClient,    \* query: const client
    queryResult,    \* query: let result
    trace,          \* every SDK / console call and its outcome, in order
    stdout,         \* what console.log wrote
    exitCode        \* -1 while running, then the status the process ended with

vars == <<env, reachable, accepts, contractState, mintPc, wallet, address,
          mintClient, mintResult, queryPc, queryClient, queryResult,
          trace, stdout, exitCode>>

mintVars == <<mintPc, wallet, address, mintClient, mintResult>>
queryVars == <<queryPc, queryClient, queryResult>>
worldVars == <<env, reachable, accepts>>

None == [none |-> TRUE]             \* a variable not yet assigned

\* ------------------------------------------------------------ trace events
Event(flow, op, kind, data) ==
    [flow |-> flow, op |-> op, kind |-> kind, data |-> data]

\* -------------------------------------------------------- SDK, as observed
\* Secp256k1HdWallet.fromMnemonic rejects anything that is not a mnemonic,
\* the unset variable included.
FromMnemonicOk(mnemonic) == mnemonic \in ValidMnemonics

\* The address of the first account of a wallet: a function of the mnemonic
\* and the prefix only.
AddressOf(mnemonic, prefix) ==
    CASE mnemonic = "abandon ability able about" -> prefix \o "1abandon"
      [] mnemonic = "zoo zone zero youth"        -> prefix \o "1zoo"
      [] OTHER                                   -> prefix \o "1"

\* GasPrice.fromString: a decimal amount followed by a denomination.
\* Strings are sequences of characters here.
DecimalChars == {"0", "1", "2", "3", "4", "5", "6", "7", "8", "9", "."}

RECURSIVE AmountLen(_)
AmountLen(s) ==
    IF s = <<>> \/ Head(s) \notin DecimalChars THEN 0
    ELSE 1 + AmountLen(Tail(s))

GasPriceFromString(s) ==
    [amount |-> SubSeq(s, 1, AmountLen(s)),
     denom  |-> SubSeq(s, AmountLen(s) + 1, Len(s))]

\* A connection is established iff an endpoint was given and it answers.
ConnectOk == env.RPC # Undefined /\ reachable

\* The literal "0.1usei" of line 14.
GasPriceLiteral == <<"0", ".", "1", "u", "s", "e", "i">>

\* Third argument of connectWithSigner (line 14).
SignerOptions == [gasPrice |-> GasPriceFromString(GasPriceLiteral)]

\* --------------------------------------------------------------- mint flow
\* Variant of MintMsg: another token_uri.
MintMsg_OtherUri(owner) ==
    [mint |-> [extension |-> EmptyObject,
               owner     |-> owner,
               token_uri |-> "https://alpaca.com/llama.jpg"]]

\* The message of lines 20-26.
MintMsg(owner) ==
    [mint |-> [extension |-> EmptyObject,
               owner     |-> owner,
               token_uri |-> "https://alpaca.com/alpaca.jpg"]]

\* The funds of line 27.
MintFunds == <<[denom |-> "usei", amount |-> "10000"]>>

\* Arguments of client.execute (lines 17-27), with the client it is called on.
ExecuteArgs ==
    [client   |-> mintClient',
     sender   |-> address,
     contract |-> env.CONTRACT_ADDR,
     msg      |-> MintMsg(address),
     fee      |-> "auto",
     memo     |-> "",
     funds    |-> MintFunds]

\* The contract takes the mint iff it is the deployed one and accepts it.
ExecuteOk == env.CONTRACT_ADDR = DeployedContract /\ accepts

\* The module body has run: both IIFEs ran up to their first await.
ModuleEvaluated == mintPc # "start" /\ queryPc # "start"

\* exitCode is -1 while the process has not ended.
Running == exitCode = -1

\* line 8: the IIFE runs synchronously up to `await fromMnemonic(...)`.
MintStart ==
    /\ Running
    /\ mintPc = "start"
    /\ mintPc' = "awaitWallet"
    /\ trace' = Append(trace, Event("mint", "fromMnemonic", "call",
                           [mnemonic |-> env.PRIVATE, prefix |-> "sei"]))
    /\ UNCHANGED <<worldVars, contractState, wallet, address, mintClient,
                   mintResult, queryVars, stdout, exitCode>>

\* line 8 resolves; line 9 calls wallet.getAccounts().
MintWalletResolved ==
    /\ Running /\ ModuleEvaluated
    /\ mintPc = "awaitWallet"
    /\ FromMnemonicOk(env.PRIVATE)
    /\ wallet' = [mnemonic |-> env.PRIVATE, prefix |-> "sei"]
    /\ mintPc' = "awaitAccounts"
    /\ trace' = trace \o
         << Event("mint", "fromMnemonic", "ok", wallet'),
            Event("mint", "getAccounts", "call", wallet') >>
    /\ UNCHANGED <<worldVars, contractState, address, mintClient,
                   mintResult, queryVars, stdout, exitCode>>

\* Variant of MintWalletRejected: the rejection is swallowed and the flow goes
\* on to connect.
MintWalletRejected_Swallowed ==
    /\ Running /\ ModuleEvaluated
    /\ mintPc = "awaitWallet"
    /\ ~FromMnemonicOk(env.PRIVATE)
    /\ mintPc' = "awaitClient"
    /\ trace' = trace \o
         << Event("mint", "fromMnemonic", "err", env.PRIVATE),
            Event("mint", "connectWithSigner", "call",
                  [endpoint |-> env.RPC, signer |-> wallet,
                   options |-> SignerOptions]) >>
    /\ UNCHANGED <<worldVars, contractState, wallet, address, mintClient,
                   mintResult, queryVars, stdout, exitCode>>

\* line 8 rejects: the IIFE's promise rejects, nothing handles it.
MintWalletRejected ==
    /\ Running /\ ModuleEvaluated
    /\ mintPc = "awaitWallet"
    /\ ~FromMnemonicOk(env.PRIVATE)
    /\ mintPc' = "failed"
    /\ trace' = Append(trace, Event("mint", "fromMnemonic", "err", env.PRIVATE))
    /\ exitCode' = 1
    /\ UNCHANGED <<worldVars, contractState, wallet, address, mintClient,
                   mintResult, queryVars, stdout>>

\* line 9 resolves; lines 11-15 call connectWithSigner.
MintAccountsResolved ==
    /\ Running /\ ModuleEvaluated
    /\ mintPc = "awaitAccounts"
    /\ address' = AddressOf(wallet.mnemonic, wallet.prefix)
    /\ mintPc' = "awaitClient"
    /\ trace' = trace \o
         << Event("mint", "getAccounts", "ok", <<[address |-> address']>>),
            Event("mint", "connectWithSigner", "call",
                  [endpoint |-> env.RPC, signer |-> wallet,
                   options |-> SignerOptions]) >>
    /\ UNCHANGED <<worldVars, contractState, wallet, mintClient,
                   mintResult, queryVars, stdout, exitCode>>

\* lines 11-15 resolve; lines 17-27 call client.execute.
MintConnectResolved ==
    /\ Running /\ ModuleEvaluated
    /\ mintPc = "awaitClient"
    /\ ConnectOk
    /\ mintClient' = [endpoint |-> env.RPC, signer |-> wallet,
                      gasPrice |-> SignerOptions.gasPrice]
    /\ mintPc' = "awaitResult"
    /\ trace' = trace \o
         << Event("mint", "connectWithSigner", "ok", mintClient'),
            Event("mint", "execute", "call", ExecuteArgs) >>
    /\ UNCHANGED <<worldVars, contractState, wallet, address,
                   mintResult, queryVars, stdout, exitCode>>

\* Variant of MintConnectRejected: execute is called although the connection
\* failed.
MintConnectRejected_Proceeds ==
    /\ Running /\ ModuleEvaluated
    /\ mintPc = "awaitClient"
    /\ ~ConnectOk
    /\ mintPc' = "awaitResult"
    /\ mintClient' = mintClient
    /\ trace' = trace \o
         << Event("mint", "connectWithSigner", "err", env.RPC),
            Event("mint", "execute", "call", ExecuteArgs) >>
    /\ UNCHANGED <<worldVars, contractState, wallet, address,
                   mintResult, queryVars, stdout, exitCode>>

\* lines 11-15 reject.
MintConnectRejected ==
    /\ Running /\ ModuleEvaluated
    /\ mintPc = "awaitClient"
    /\ ~ConnectOk
    /\ mintPc' = "failed"
    /\ trace' = Append(trace, Event("mint", "connectWithSigner", "err", env.RPC))
    /\ exitCode' = 1
    /\ UNCHANGED <<worldVars, contractState, wallet, address, mintClient,
                   mintResult, queryVars, stdout>>

\* lines 17-27 resolve: the contract has minted the token; line 29 prints.
MintExecuteResolved ==
    /\ Running /\ ModuleEvaluated
    /\ mintPc = "awaitResult"
    /\ ExecuteOk
    /\ \E h \in TxHashes :
         /\ mintResult' = [transactionHash |-> h]
         /\ contractState' =
              [num_tokens |-> contractState.num_tokens + 1,
               minted     |-> Append(contractState.minted,
                                     [owner     |-> address,
                                      token_uri |-> MintMsg(address).mint.token_uri])]
         /\ trace' = trace \o
              << Event("mint", "execute", "ok", mintResult'),
                 Event("mint", "console.log", "call", mintResult'.transactionHash) >>
         /\ stdout' = Append(stdout, [flow |-> "mint",
                                      value |-> mintResult'.transactionHash])
    /\ mintPc' = "done"
    /\ UNCHANGED <<worldVars, wallet, address, mintClient, queryVars, exitCode>>

\* Variant of MintExecuteRejected: the rejection is caught, the process goes
\* on.
MintExecuteRejected_Caught ==
    /\ Running /\ ModuleEvaluated
    /\ mintPc = "awaitResult"
    /\ ~ExecuteOk
    /\ mintPc' = "failed"
    /\ trace' = Append(trace, Event("mint", "execute", "err", env.CONTRACT_ADDR))
    /\ UNCHANGED <<worldVars, contractState, wallet, address, mintClient,
                   mintResult, queryVars, stdout, exitCode>>

\* lines 17-27 reject.
MintExecuteRejected ==
    /\ Running /\ ModuleEvaluated
    /\ mintPc = "awaitResult"
    /\ ~ExecuteOk
    /\ mintPc' = "failed"
    /\ trace' = Append(trace, Event("mint", "execute", "err", env.CONTRACT_ADDR))
    /\ exitCode' = 1
    /\ UNCHANGED <<worldVars, contractState, wallet, address, mintClient,
                   mintResult, queryVars, stdout>>

MintNext ==
    \/ MintStart
    \/ MintWalletResolved
    \/ MintWalletRejected
    \/ MintAccountsResolved
    \/ MintConnectResolved
    \/ MintConnectRejected
    \/ MintExecuteResolved
    \/ MintExecuteRejected

\* -------------------------------------------------------------- query flow
\* The message of lines 41-43.
QueryMsg == [num_tokens |-> EmptyObject]

\* Arguments of client.queryContractSmart (lines 39-43), with the client.
QueryArgs ==
    [client   |-> queryClient',
     contract |-> env.CONTRACT_ADDR,
     msg      |-> QueryMsg]

\* The query is answered iff it names the deployed contract.
QueryOk == env.CONTRACT_ADDR = DeployedContract

\* What the contract answers to num_tokens.
NumTokensResponse == [count |-> contractState.num_tokens]

\* Variant of QueryStart: the connect is not awaited, the query is called at
\* once.
QueryStart_NoAwait ==
    /\ Running
    /\ mintPc # "start"
    /\ queryPc = "start"
    /\ queryPc' = "awaitClient"
    /\ queryClient' = queryClient
    /\ trace' = trace \o
         << Event("query", "connect", "call", [endpoint |-> env.RPC]),
            Event("query", "queryContractSmart", "call", QueryArgs) >>
    /\ UNCHANGED <<worldVars, contractState, mintVars,
                   queryResult, stdout, exitCode>>

\* lines 35-37: the IIFE runs synchronously up to `await connect(...)`.
\* It is the second statement of the module: the mint IIFE has already run
\* up to its first await.
QueryStart ==
    /\ Running
    /\ mintPc # "start"
    /\ queryPc = "start"
    /\ queryPc' = "awaitClient"
    /\ trace' = Append(trace, Event("query", "connect", "call",
                                    [endpoint |-> env.RPC]))
    /\ UNCHANGED <<worldVars, contractState, mintVars, queryClient,
                   queryResult, stdout, exitCode>>

\* lines 35-37 resolve; lines 39-43 call client.queryContractSmart.
QueryConnectResolved ==
    /\ Running /\ ModuleEvaluated
    /\ queryPc = "awaitClient"
    /\ ConnectOk
    /\ queryClient' = [endpoint |-> env.RPC]
    /\ queryPc' = "awaitResult"
    /\ trace' = trace \o
         << Event("query", "connect", "ok", queryClient'),
            Event("query", "queryContractSmart", "call", QueryArgs) >>
    /\ UNCHANGED <<worldVars, contractState, mintVars, queryResult,
                   stdout, exitCode>>

\* Variant of QueryConnectRejected: the connect is tried again.
QueryConnectRejected_Retries ==
    /\ Running /\ ModuleEvaluated
    /\ queryPc = "awaitClient"
    /\ ~ConnectOk
    /\ queryPc' = "awaitClient"
    /\ trace' = trace \o
         << Event("query", "connect", "err", env.RPC),
            Event("query", "connect", "call", [endpoint |-> env.RPC]) >>
    /\ UNCHANGED <<worldVars, contractState, mintVars, queryClient,
                   queryResult, stdout, exitCode>>

\* lines 35-37 reject.
QueryConnectRejected ==
    /\ Running /\ ModuleEvaluated
    /\ queryPc = "awaitClient"
    /\ ~ConnectOk
    /\ queryPc' = "failed"
    /\ trace' = Append(trace, Event("query", "connect", "err", env.RPC))
    /\ exitCode' = 1
    /\ UNCHANGED <<worldVars, contractState, mintVars, queryClient,
                   queryResult, stdout>>

\* Variant of QueryResultResolved: the query leaves a mark on the contract.
QueryResultResolved_Writes ==
    /\ Running /\ ModuleEvaluated
    /\ queryPc = "awaitResult"
    /\ QueryOk
    /\ queryResult' = NumTokensResponse
    /\ queryPc' = "done"
    /\ contractState' = [contractState EXCEPT !.num_tokens = @ + 1]
    /\ trace' = trace \o
         << Event("query", "queryContractSmart", "ok", NumTokensResponse),
            Event("query", "console.log", "call", queryResult') >>
    /\ stdout' = Append(stdout, [flow |-> "query", value |-> queryResult'])
    /\ UNCHANGED <<worldVars, mintVars, queryClient, exitCode>>

\* lines 39-43 resolve; line 45 prints the response.
QueryResultResolved ==
    /\ Running /\ ModuleEvaluated
    /\ queryPc = "awaitResult"
    /\ QueryOk
    /\ queryResult' = NumTokensResponse
    /\ queryPc' = "done"
    /\ trace' = trace \o
         << Event("query", "queryContractSmart", "ok", NumTokensResponse),
            Event("query", "console.log", "call", queryResult') >>
    /\ stdout' = Append(stdout, [flow |-> "query", value |-> queryResult'])
    /\ UNCHANGED <<worldVars, contractState, mintVars, queryClient, exitCode>>

\* Variant of QueryResultRejected: the error is caught and printed.
QueryResultRejected_Prints ==
    /\ Running /\ ModuleEvaluated
    /\ queryPc = "awaitResult"
    /\ ~QueryOk
    /\ queryPc' = "failed"
    /\ trace' = trace \o
         << Event("query", "queryContractSmart", "err", env.CONTRACT_ADDR),
            Event("query", "console.log", "call", env.CONTRACT_ADDR) >>
    /\ stdout' = Append(stdout, [flow |-> "query",
                                 value |-> [error |-> env.CONTRACT_ADDR]])
    /\ exitCode' = 1
    /\ UNCHANGED <<worldVars, contractState, mintVars, queryClient,
                   queryResult>>

\* lines 39-43 reject.
QueryResultRejected ==
    /\ Running /\ ModuleEvaluated
    /\ queryPc = "awaitResult"
    /\ ~QueryOk
    /\ queryPc' = "failed"
    /\ trace' = Append(trace, Event("query", "queryContractSmart", "err",
                                    env.CONTRACT_ADDR))
    /\ exitCode' = 1
    /\ UNCHANGED <<worldVars, contractState, mintVars, queryClient,
                   queryResult, stdout>>

QueryNext ==
    \/ QueryStart
    \/ QueryConnectResolved
    \/ QueryConnectRejected
    \/ QueryResultResolved
    \/ QueryResultRejected

\* ----------------------------------------------------------------- process
Settled(pc) == pc \in {"done", "failed"}

\* Nothing is pending any more and no rejection went unhandled: the process
\* ends with status 0.
ProcessExit ==
    /\ Running
    /\ Settled(mintPc) /\ Settled(queryPc)
    /\ exitCode' = 0
    /\ UNCHANGED <<worldVars, contractState, mintVars, queryVars, trace, stdout>>

Init ==
    /\ env \in [PRIVATE : PrivateValues, RPC : RpcValues,
                CONTRACT_ADDR : ContractValues]
    /\ reachable \in BOOLEAN
    /\ accepts \in BOOLEAN
    /\ contractState \in [num_tokens : 0..MaxTokens, minted : {<<>>}]
    /\ mintPc = "start"
    /\ wallet = None
    /\ address = Undefined
    /\ mintClient = None
    /\ mintResult = None
    /\ queryPc = "start"
    /\ queryClient = None
    /\ queryResult = None
    /\ trace = <<>>
    /\ stdout = <<>>
    /\ exitCode = -1

Next ==
    \/ MintStart
    \/ MintWalletResolved
    \/ MintWalletRejected
    \/ MintAccountsResolved
    \/ MintConnectResolved
    \/ MintConnectRejected
    \/ MintExecuteResolved
    \/ MintExecuteRejected
    \/ QueryStart
    \/ QueryConnectResolved
    \/ QueryConnectRejected
    \/ QueryResultResolved
    \/ QueryResultRejected
    \/ ProcessExit

Spec == Init /\ [][Next]_vars

\* ------------------------------------------------------- reading the trace
Calls(flow, op) ==
    SelectSeq(trace, LAMBDA e : e.flow = flow /\ e.op = op /\ e.kind = "call")

Outcomes(flow, op, kind) ==
    SelectSeq(trace, LAMBDA e : e.flow = flow /\ e.op = op /\ e.kind = kind)

FlowEvents(flow) == SelectSeq(trace, LAMBDA e : e.flow = flow)

Printed(flow) == SelectSeq(stdout, LAMBDA l : l.flow = flow)

LastEvent(flow) == FlowEvents(flow)[Len(FlowEvents(flow))]

InProgress(pc) == pc \notin {"start", "done", "failed"}

\* trace[i] is the call of op by flow, and an earlier event is the successful
\* return of prev to the same flow.
CallFollowsOk(flow, op, prev) ==
    \A i \in DOMAIN trace :
        (trace[i].flow = flow /\ trace[i].op = op /\ trace[i].kind = "call")
        => \E j \in 1..(i - 1) :
               trace[j].flow = flow /\ trace[j].op = prev /\ trace[j].kind = "ok"

\* Nothing of a flow follows a failure of one of its steps.
NothingAfterError(flow) ==
    \A i \in DOMAIN trace :
        (trace[i].flow = flow /\ trace[i].kind = "err")
        => \A j \in (i + 1)..Len(trace) : trace[j].flow # flow

\* ================================================================== claims

\* A call of the mint flow that goes out to the endpoint: a connect to an
\* endpoint that was given, or an execute.
MintNetworkCalls ==
    SelectSeq(trace, LAMBDA e :
        /\ e.flow = "mint" /\ e.kind = "call"
        /\ \/ e.op = "execute"
           \/ e.op = "connectWithSigner" /\ e.data.endpoint # Undefined)

AnyInputAbsent ==
    \/ env.PRIVATE = Undefined
    \/ env.RPC = Undefined
    \/ env.CONTRACT_ADDR = Undefined
    \/ GasPriceLiteral = <<>>

\* C1: if any of the four inputs of the mint flow (secret phrase, endpoint
\* URL, contract identifier, fee price) is absent, the mint flow has made no
\* connect call and no execute call to the remote endpoint.
C1_AbsentInputNoNetworkCall ==
    AnyInputAbsent => MintNetworkCalls = <<>>

\* C2: when the secret phrase is missing, the mint flow never calls
\* connectWithSigner or execute, it gets no further than the derivation of
\* the wallet, and when it has ended it has failed there and the process has
\* been aborted.
C2_MissingPhraseFailsBeforeNetwork ==
    env.PRIVATE = Undefined =>
        /\ Calls("mint", "connectWithSigner") = <<>>
        /\ Calls("mint", "execute") = <<>>
        /\ mintPc \in {"start", "awaitWallet", "failed"}
        /\ mintPc = "failed" =>
             /\ LastEvent("mint").op = "fromMnemonic"
             /\ LastEvent("mint").kind = "err"
             /\ exitCode = 1

C2_Witness ==
    /\ env.PRIVATE = Undefined
    /\ mintPc = "failed"
    /\ Calls("mint", "fromMnemonic") # <<>>

\* The inputs under which nothing the mint flow calls can fail.
MintInputsGood ==
    /\ FromMnemonicOk(env.PRIVATE)
    /\ ConnectOk
    /\ ExecuteOk

\* C3: when the endpoint is reachable and the contract accepts the mint, the
\* mint flow does not fail and makes at most one execute call; that call
\* carries the mint message with the derived address as owner and the fixed
\* token_uri, the funds 10000 usei and a client with fee price 0.1 usei; once
\* the flow is done there is exactly one execute call and the one line the
\* flow printed is the non-empty transaction hash that call returned.
C3_MintMakesOneExecuteAndPrintsHash ==
    MintInputsGood =>
        /\ mintPc # "failed"
        /\ Len(Calls("mint", "execute")) <= 1
        /\ \A i \in DOMAIN Calls("mint", "execute") :
             LET a == Calls("mint", "execute")[i].data IN
               /\ a.msg = [mint |-> [extension |-> <<>>,
                                     owner     |-> AddressOf(env.PRIVATE, "sei"),
                                     token_uri |-> "https://alpaca.com/alpaca.jpg"]]
               /\ a.funds = <<[denom |-> "usei", amount |-> "10000"]>>
               /\ a.client.gasPrice = [amount |-> <<"0", ".", "1">>,
                                       denom  |-> <<"u", "s", "e", "i">>]
               /\ a.contract = env.CONTRACT_ADDR
        /\ mintPc = "done" =>
             /\ Len(Calls("mint", "execute")) = 1
             /\ Len(Outcomes("mint", "execute", "ok")) = 1
             /\ Len(Printed("mint")) = 1
             /\ Printed("mint")[1].value # ""
             /\ Printed("mint")[1].value =
                  Outcomes("mint", "execute", "ok")[1].data.transactionHash

C3_Witness ==
    /\ MintInputsGood
    /\ mintPc = "done"
    /\ Len(Printed("mint")) = 1

\* C4: when the endpoint is unreachable, the mint flow never calls execute,
\* never prints and never completes; when it has ended after a successful
\* derivation, it has failed in connectWithSigner.
C4_UnreachableEndsInConnectionError ==
    ~reachable =>
        /\ Calls("mint", "execute") = <<>>
        /\ Printed("mint") = <<>>
        /\ mintPc # "done"
        /\ (mintPc = "failed" /\ FromMnemonicOk(env.PRIVATE)) =>
             /\ LastEvent("mint").op = "connectWithSigner"
             /\ LastEvent("mint").kind = "err"

C4_Witness ==
    /\ ~reachable
    /\ env.RPC # Undefined
    /\ mintPc = "failed"
    /\ Outcomes("mint", "connectWithSigner", "err") # <<>>

\* A flow that has failed stays failed and adds nothing to the trace.
FailureIsTerminal ==
    /\ mintPc = "failed" =>
         mintPc' = "failed" /\ FlowEvents("mint")' = FlowEvents("mint")
    /\ queryPc = "failed" =>
         queryPc' = "failed" /\ FlowEvents("query")' = FlowEvents("query")

AtMostOneCallEach ==
    /\ Len(Calls("mint", "connectWithSigner")) <= 1
    /\ Len(Calls("mint", "execute")) <= 1
    /\ Len(Calls("query", "connect")) <= 1
    /\ Len(Calls("query", "queryContractSmart")) <= 1

\* C5: no flow retries: the mint flow makes at most one connectWithSigner
\* call and at most one execute call, the query flow at most one connect call
\* and at most one queryContractSmart call, and a flow that has failed takes
\* no further step.
C5_NoRetries ==
    /\ []AtMostOneCallEach
    /\ [][FailureIsTerminal]_vars

C5_Witness ==
    /\ queryPc = "failed"
    /\ Len(Calls("query", "queryContractSmart")) = 1
    /\ Len(Calls("mint", "connectWithSigner")) = 1
    /\ Outcomes("query", "queryContractSmart", "err") # <<>>

\* What the query flow has called is connect and the num_tokens query only,
\* and what it printed is what the query returned.
QueryReadsOnly ==
    /\ \A i \in DOMAIN trace :
         (trace[i].flow = "query" /\ trace[i].kind = "call")
         => trace[i].op \in {"connect", "queryContractSmart", "console.log"}
    /\ \A i \in DOMAIN Calls("query", "queryContractSmart") :
         Calls("query", "queryContractSmart")[i].data.msg
             = [num_tokens |-> <<>>]
    /\ queryPc = "done" =>
         /\ Len(Printed("query")) = 1
         /\ Len(Outcomes("query", "queryContractSmart", "ok")) = 1
         /\ Printed("query")[1].value =
              Outcomes("query", "queryContractSmart", "ok")[1].data
    /\ queryPc # "done" => Printed("query") = <<>>

\* C6: the query flow never mutates chain state: no step of the query flow
\* changes the state of the contract, the only calls it makes are connect and
\* the num_tokens query, and on success what it prints is exactly the
\* response the contract returned.
C6_QueryDoesNotMutate ==
    /\ []QueryReadsOnly
    /\ [][QueryNext => contractState' = contractState]_vars

C6_Witness ==
    /\ queryPc = "done"
    /\ Len(Printed("query")) = 1
    /\ contractState.minted # <<>>

\* C7: when the contract identifier is invalid or absent, the query flow
\* prints nothing and never completes, and when it has ended after a
\* successful connect it has failed in queryContractSmart; in every run a
\* console.log of the query flow follows a successful return of the query.
C7_InvalidContractPrintsNothing ==
    /\ env.CONTRACT_ADDR # DeployedContract =>
         /\ Printed("query") = <<>>
         /\ Calls("query", "console.log") = <<>>
         /\ queryPc # "done"
         /\ (queryPc = "failed" /\ ConnectOk) =>
              /\ LastEvent("query").op = "queryContractSmart"
              /\ LastEvent("query").kind = "err"
    /\ CallFollowsOk("query", "console.log", "queryContractSmart")
    /\ Len(Printed("query")) = Len(Calls("query", "console.log"))

C7_Witness ==
    /\ env.CONTRACT_ADDR = UnknownContract
    /\ queryPc = "failed"
    /\ Calls("query", "queryContractSmart") # <<>>

\* C8: the mint flow and the query flow are never in progress at the same
\* time: there is no state in which both have started and neither has ended.
C8_FlowsNeverOverlap ==
    ~(InProgress(mintPc) /\ InProgress(queryPc))

\* C9: a failure of any step of a flow ends the process with status 1: no
\* state has a failed step and exit status 0 or a process still running, and
\* nothing of that flow follows the failure.
C9_FailureAbortsProcess ==
    /\ (mintPc = "failed" \/ queryPc = "failed") => exitCode = 1
    /\ (\E i \in DOMAIN trace : trace[i].kind = "err") => exitCode = 1
    /\ exitCode = 0 => (mintPc = "done" /\ queryPc = "done")
    /\ NothingAfterError("mint")
    /\ NothingAfterError("query")

C9_Witness ==
    /\ exitCode = 1
    /\ mintPc = "failed"
    /\ Outcomes("mint", "execute", "err") # <<>>

\* C10: the steps of a flow are strictly ordered: getAccounts is called after
\* fromMnemonic returned, connectWithSigner after getAccounts returned,
\* execute after connectWithSigner returned, the hash is printed after
\* execute returned; the query is called after connect returned and the
\* result is printed after the query returned; no event of a flow follows a
\* failure of one of its steps.
C10_StepsStrictlyOrdered ==
    /\ CallFollowsOk("mint", "getAccounts", "fromMnemonic")
    /\ CallFollowsOk("mint", "connectWithSigner", "getAccounts")
    /\ CallFollowsOk("mint", "execute", "connectWithSigner")
    /\ CallFollowsOk("mint", "console.log", "execute")
    /\ CallFollowsOk("query", "queryContractSmart", "connect")
    /\ CallFollowsOk("query", "console.log", "queryContractSmart")
    /\ NothingAfterError("mint")
    /\ NothingAfterError("query")
    /\ Len(Printed("mint")) = Len(Calls("mint", "console.log"))
    /\ Len(Printed("query")) = Len(Calls("query", "console.log"))

C10_Witness ==
    /\ mintPc = "done"
    /\ queryPc = "done"
    /\ exitCode = 0

====
